---- MODULE Spec2Model ----
(***************************************************************************)
(* echox: login to the lecture-capture service, resolve the media of the   *)
(* configured sections and download the files the index does not hold yet. *)
(* The module models the sqlite index (index.py), the client               *)
(* (echo_client.py) and the sync loop (cli.py) as one state machine.       *)
(***************************************************************************)
EXTENDS Integers, Sequences, FiniteSets, TLC

\* Number of chunks iter_content yields for every downloaded file.
NumChunks == 2

\* The fields of a query string are at most this many.
MaxFields == 3

HTTP_OK == 200

\* ------------------------------------------------------------------------
\* Values of the modelled world
\* ------------------------------------------------------------------------
CourseIds == {"C1", "C2"}
LessonIds == {"L1", "L2"}
MediaIds == {"M1", "M2"}
FileNames == {"a.mp4", "b.tmp"}
CourseNames == {"Old", "New"}
CourseCodes == {"COD"}
LessonNames == {"Lesson"}

AllTables == {"course", "lesson", "media"}

VARIABLES
    \* durable state: the sqlite file and the media directory
    tables,      \* relations that exist in index.db
    course,      \* rows of course(id, name, code)
    lesson,      \* rows of lesson(id, name, for_course)
    media,       \* rows of media(id, file_name, for_lesson)
    disk,        \* path -> [exists, data]
    \* the remote service
    remote,
    \* the running process
    pc,          \* position of the process in cli()
    session,     \* "none" | "open" | "closed": EchoClient._session
    cookies,     \* names in session.cookies
    login_response, \* <<>> or <<status>> of the login completion response
    login_user,  \* <<>> or <<EchoUser>>: the local `user` of login()
    user,        \* <<>> or <<EchoUser>>: EchoClient._user
    section_i,   \* index into config.sections
    media_ids,   \* the flattened media ids of the current section
    media_i,     \* index into media_ids
    cur_media,   \* <<>> or <<Media>>: the local `media`
    file_i,      \* index into media.files
    chunk_i,     \* chunks of the current file written so far
    \* observation of the current (or last) run
    outcome,     \* "none" | "running" | "done" | "failed" | "killed"
    error,       \* message of the exception that ended the run, "" if none
    loginLog,    \* login requests issued in this run, in order
    authenticated, \* login() returned a user in this run
    requests,    \* syllabus / media-details / download requests of this run
    downloads,   \* keys whose save_media_file returned in this run, in order
    opened,      \* keys whose destination file was opened for writing in this run
    queried,     \* keys has_media was asked about in this run
    index0,      \* the index rows when this run started
    changed,     \* the remote state changed since the last run started
    prevOutcome, \* how the run before this one ended
    steady,      \* the remote did not change between the start of the run
                 \* before this one and the start of this one
    \* observation of calls made on the index
    lastCall,    \* last operation called on the index, with its result
    lastCourse,  \* course id -> <<>> or <<[name, code]>> of its last upsert
    lastLesson,  \* lesson id -> <<>> or <<[name, for_course]>> of its last upsert
    \* a URL handed to the query-string functions on their own
    query,       \* its query string: fields in order
    parsed,      \* <<>> or <<what the functions made of it>>
    \* two runs of cli() at the same time on one index and media root
    runs         \* run -> [pc, media, file_i, chunk_i, error]

durable == <<tables, course, lesson, media, disk>>
auth == <<cookies, login_response, login_user, user>>
loops == <<section_i, media_ids, media_i, cur_media, file_i, chunk_i>>
process == <<pc, session, auth, loops>>
worklog == <<requests, downloads, opened, queried>>
runstart == <<index0, changed, prevOutcome, steady>>
observed == <<outcome, error, loginLog, authenticated, worklog, runstart>>
calls == <<lastCall, lastCourse, lastLesson>>
aside == <<query, parsed, runs>>
vars == <<durable, remote, process, observed, calls, aside>>

\* ------------------------------------------------------------------------
\* index.py
\* ------------------------------------------------------------------------

\* CREATE TABLE IF NOT EXISTS for the three relations.
initialize_index(tbls) == tbls \cup AllTables

\* Variant: DROP TABLE IF EXISTS, then CREATE TABLE.
create_table_anew(tbls, name, rows) == {}

\* CREATE TABLE IF NOT EXISTS: the rows of a relation after the statement.
create_table_if_not_exists(tbls, name, rows) ==
    IF name \in tbls THEN rows ELSE {}

\* Variant: INSERT OR IGNORE, the row of an existing id keeps its values.
create_course_or_ignore(rows, course_id, course_name, course_code) ==
    IF \E r \in rows : r.id = course_id
    THEN rows
    ELSE rows \cup {[id |-> course_id, name |-> course_name, code |-> course_code]}

\* INSERT ... ON CONFLICT(id) DO UPDATE SET name, code.
create_course_or_update(rows, course_id, course_name, course_code) ==
    IF \E r \in rows : r.id = course_id
    THEN {IF r.id = course_id
          THEN [r EXCEPT !.name = course_name, !.code = course_code]
          ELSE r : r \in rows}
    ELSE rows \cup {[id |-> course_id, name |-> course_name, code |-> course_code]}

\* INSERT ... ON CONFLICT(id) DO UPDATE SET name, for_course.
create_lesson_or_update(rows, lesson_id, lesson_name, for_course_id) ==
    IF \E r \in rows : r.id = lesson_id
    THEN {IF r.id = lesson_id
          THEN [r EXCEPT !.name = lesson_name, !.for_course = for_course_id]
          ELSE r : r \in rows}
    ELSE rows \cup {[id |-> lesson_id, name |-> lesson_name,
                     for_course |-> for_course_id]}

\* SELECT EXISTS (SELECT 1 FROM media WHERE id=? AND file_name=?)
has_media(rows, media_id, file_name) ==
    \E r \in rows : r.id = media_id /\ r.file_name = file_name

\* Variant: the relation without its primary key, every insert succeeds.
create_media_no_key(rows, media_id, file_name, for_lesson_id) ==
    [error |-> "",
     rows |-> rows \cup {[id |-> media_id, file_name |-> file_name,
                          for_lesson |-> for_lesson_id]}]

\* Variant: INSERT OR REPLACE, the row of an existing key is replaced.
create_media_or_replace(rows, media_id, file_name, for_lesson_id) ==
    [error |-> "",
     rows |-> {r \in rows : ~(r.id = media_id /\ r.file_name = file_name)}
              \cup {[id |-> media_id, file_name |-> file_name,
                      for_lesson |-> for_lesson_id]}]

\* PRIMARY KEY (id, file_name): the insert of an existing key raises
\* sqlite3.IntegrityError and the transaction is rolled back.
create_media(rows, media_id, file_name, for_lesson_id) ==
    IF \E r \in rows : r.id = media_id /\ r.file_name = file_name
    THEN [error |-> "IntegrityError", rows |-> rows]
    ELSE [error |-> "",
          rows |-> rows \cup {[id |-> media_id, file_name |-> file_name,
                               for_lesson |-> for_lesson_id]}]

\* What the last upsert of each id carried.
NoteCourse(last, course_id, course_name, course_code) ==
    [last EXCEPT ![course_id] = <<[name |-> course_name, code |-> course_code]>>]

NoteLesson(last, lesson_id, lesson_name, for_course_id) ==
    [last EXCEPT ![lesson_id] = <<[name |-> lesson_name, for_course |-> for_course_id]>>]

NoCall == [op |-> "none", key |-> <<>>, result |-> ""]


\* ------------------------------------------------------------------------
\* The remote service and the configuration
\* ------------------------------------------------------------------------

\* config.sections
config_sections == <<"S1", "S2">>

\* credentials.app_id
app_id == "app"

\* What the service answers varies in the name of the course and in whether
\* the second file of M1 is processed yet.
RemoteStates == [courseName : CourseNames, bProcessed : BOOLEAN]

LessonEntry(ids) == [lesson |-> [medias |-> [i \in DOMAIN ids |-> [id |-> ids[i]]]]]

\* The `data` of /section/{id}/syllabus: S1 lists M1 and M2 in two lessons,
\* S2 lists M1 again.
SyllabusData(r, section_id) ==
    IF section_id = "S1"
    THEN <<LessonEntry(<<"M1">>), LessonEntry(<<"M2">>)>>
    ELSE <<LessonEntry(<<"M1">>)>>

MediaFilesJson(r, media_id) ==
    IF media_id = "M1"
    THEN <<[name |-> "a.mp4", fileSize |-> NumChunks, isProcessedFile |-> TRUE],
           [name |-> "b.tmp", fileSize |-> NumChunks, isProcessedFile |-> r.bProcessed]>>
    ELSE <<[name |-> "a.mp4", fileSize |-> NumChunks, isProcessedFile |-> TRUE],
           [name |-> "a.mp4", fileSize |-> NumChunks, isProcessedFile |-> TRUE]>>

\* One element of the `data` of /media/{id}/details. Both media belong to
\* course C1 and lesson L1, and both carry a file named a.mp4; M2 lists it twice.
MediaDetailsData(r, media_id) ==
    [media |-> [publishedCourseIds |-> <<"C1", "C2">>,
                publishedSectionIds |-> <<"S1">>,
                publishedLessonIds |-> <<"L1", "L2">>],
     details |-> [publishedOrgsByCourseId |-> [c \in {"C1"} |-> [id |-> <<"org">>]],
                  publishedDeptsByCourseId |-> [c \in {"C1"} |-> [id |-> <<"dept">>]],
                  files |-> MediaFilesJson(r, media_id)],
     coursesById |-> [c \in {"C1"} |-> [name |-> r.courseName, identifier |-> "COD"]],
     lessonsById |-> [l \in {"L1"} |-> [name |-> "Lesson"]]]

\* The same element with the coursesById table missing (schema drift).
MediaDetailsDrifted(r, media_id) ==
    [media |-> MediaDetailsData(r, media_id).media,
     details |-> MediaDetailsData(r, media_id).details,
     lessonsById |-> MediaDetailsData(r, media_id).lessonsById]

\* Responses the service can give to the syllabus request.
SyllabusResponses(r, section_id) ==
    {[status_code |-> HTTP_OK, status |-> "ok", data |-> SyllabusData(r, section_id)],
     [status_code |-> HTTP_OK, status |-> "error", data |-> <<>>],
     [status_code |-> 500, status |-> "ok", data |-> <<>>]}

\* Responses the service can give to the media-details request.
MediaResponses(r, media_id) ==
    {[status_code |-> HTTP_OK, status |-> "ok",
      data |-> <<MediaDetailsData(r, media_id), MediaDetailsDrifted(r, media_id)>>],
     [status_code |-> HTTP_OK, status |-> "ok",
      data |-> <<MediaDetailsDrifted(r, media_id)>>],
     [status_code |-> HTTP_OK, status |-> "error", data |-> <<>>],
     [status_code |-> 500, status |-> "ok", data |-> <<>>]}

\* Bytes the service streams for /media/download/{media_id}/{file_name}.
Chunk(media_id, file_name, i) == <<media_id, file_name, i>>
Content(media_id, file_name) == [i \in 1..NumChunks |-> Chunk(media_id, file_name, i)]

Paths == CourseIds \X LessonIds \X FileNames
NoFile == [exists |-> FALSE, data |-> <<>>]

\* Query strings of the URLs the login flow meets: the fields between the
\* separators in order, <<name, value>> for name=value (the value "" when
\* blank) and <<name>> for a field without "=".
UrlQuery(url) ==
    CASE url = "u_input" -> query
      [] url = "u_ok" -> << <<"userId", "a">>, <<"callbackUrl", "cb_one">> >>
      [] url = "u_multi" -> << <<"userId", "a">>, <<"userId", "b">>,
                               <<"callbackUrl", "cb_two">>, <<"callbackUrl", "cb_other">> >>
      [] url = "u_nouser" -> << <<"callbackUrl", "cb_one">> >>
      [] url = "u_nocallback" -> << <<"userId", "a">> >>
      [] url = "u_badcallback" -> << <<"userId", "a">>, <<"callbackUrl", "cb_other">> >>
      [] url = "cb_one" -> << <<"institutionId", "i1">> >>
      [] url = "cb_two" -> << <<"institutionId", "i1">>, <<"institutionId", "i2">> >>
      [] url = "cb_other" -> << <<"next", "x">> >>
      [] url = "cb_bare" -> << <<"institutionId", "i1">>, <<"flag">> >>
      [] url = "u_blankuser" -> << <<"userId", "">>, <<"callbackUrl", "cb_one">> >>
      [] url = "u_bare" -> << <<"userId", "a">>, <<"callbackUrl", "cb_one">>, <<"flag">> >>
      [] OTHER -> <<>>

LoginUrls == {"u_ok", "u_multi", "u_nouser", "u_nocallback", "u_badcallback", "u_empty",
              "u_blankuser", "u_bare"}

\* The documents the credential submission can answer with.
HtmlDocs == {[form |-> f, action |-> a, nonce_input |-> i, nonce_value |-> v] :
             f \in BOOLEAN, a \in BOOLEAN, i \in BOOLEAN, v \in BOOLEAN}

\* ------------------------------------------------------------------------
\* echo_client.py
\* ------------------------------------------------------------------------
REQUIRED_COOKIES == {"ECHO_JWT", "PLAY_SESSION", "CloudFront-Key-Pair-Id",
                     "CloudFront-Policy", "CloudFront-Signature",
                     "CloudFront-Tracking2"}

ECHO_OK_STATUS == "ok"

\* parse_qs(query, strict_parsing=True, keep_blank_values=False): a field
\* without "=" raises ValueError, a blank value is left out, and each name
\* that is left maps to its values in order.
parse_qs(q) ==
    IF \E i \in DOMAIN q : Len(q[i]) # 2
    THEN [error |-> "ValueError", params |-> <<>>]
    ELSE LET kept == SelectSeq(q, LAMBDA f : f[2] # "")
             names == {kept[i][1] : i \in DOMAIN kept}
             of(n) == SelectSeq(kept, LAMBDA f : f[1] = n)
         IN [error |-> "",
             params |-> [n \in names |-> [i \in DOMAIN of(n) |-> of(n)[i][2]]]]

\* Variant: dict(parse_qsl(...)), the last value of each name wins.
get_url_last_query_params(url) ==
    LET params == parse_qs(UrlQuery(url)).params
    IN [n \in DOMAIN params |-> params[n][Len(params[n])]]

\* {name: value for name, (value, *_) in query_params.items()}
get_url_singular_query_params(url) ==
    LET params == parse_qs(UrlQuery(url)).params
    IN [n \in DOMAIN params |-> Head(params[n])]

\* _begin_institution_authentication on the response of the lookup.
begin_institution_authentication(status_code, login_url) ==
    IF status_code # HTTP_OK
    THEN [error |-> "Failed to find institution while attempting to login.",
          user |-> <<>>]
    ELSE IF parse_qs(UrlQuery(login_url)).error # ""
    THEN [error |-> parse_qs(UrlQuery(login_url)).error, user |-> <<>>]
    ELSE LET params == get_url_singular_query_params(login_url) IN
    IF "userId" \notin DOMAIN params
    THEN [error |-> "Failed to obtain the the user ID from authentication.",
          user |-> <<>>]
    ELSE IF "callbackUrl" \notin DOMAIN params
    THEN [error |-> "Failed to obtain the callback URL for authentication.",
          user |-> <<>>]
    ELSE IF parse_qs(UrlQuery(params["callbackUrl"])).error # ""
    THEN [error |-> parse_qs(UrlQuery(params["callbackUrl"])).error, user |-> <<>>]
    ELSE LET cb == get_url_singular_query_params(params["callbackUrl"]) IN
    IF "institutionId" \notin DOMAIN cb
    THEN [error |-> "Failed to obtain the institution ID for authentication.",
          user |-> <<>>]
    ELSE [error |-> "",
          user |-> <<[user_id |-> params["userId"],
                      institution_id |-> cb["institutionId"],
                      app_id |-> app_id]>>]

extract_nonce_and_completion_url(doc) ==
    IF ~doc.form THEN "Failed to find the login completion form."
    ELSE IF ~doc.action THEN "Failed to find the login completion URL."
    ELSE IF ~doc.nonce_input THEN "Failed to find the authentication nonce input."
    ELSE IF ~doc.nonce_value THEN "Failed to find the authentication nonce."
    ELSE ""

apply_institution_credentials(status_code, doc) ==
    IF status_code # HTTP_OK
    THEN "Failed to apply credentials."
    ELSE extract_nonce_and_completion_url(doc)

\* Variant: the status alone decides.
complete_institution_login_status_only(status_code, jar) ==
    IF status_code # HTTP_OK
    THEN "Failed to complete authentication: response not ok."
    ELSE ""

\* The two checks of _complete_institution_login on the completion response.
complete_institution_login(status_code, jar) ==
    IF status_code # HTTP_OK
    THEN "Failed to complete authentication: response not ok."
    ELSE IF ~(REQUIRED_COOKIES \subseteq jar)
    THEN "Failed to complete authentication: missing required cookies."
    ELSE ""

get_syllabus(response) ==
    IF response.status_code # HTTP_OK
    THEN [error |-> "Failed to get the syllabus", data |-> <<>>]
    ELSE IF response.status # ECHO_OK_STATUS
    THEN [error |-> "Status not ok for section", data |-> <<>>]
    ELSE [error |-> "", data |-> response.data]

\* [media["id"] for lesson in syllabus for media in lesson["lesson"]["medias"]]
RECURSIVE FlattenMediaIds(_)
FlattenMediaIds(syllabus) ==
    IF syllabus = <<>> THEN <<>>
    ELSE LET medias == Head(syllabus).lesson.medias
         IN [i \in DOMAIN medias |-> medias[i].id] \o FlattenMediaIds(Tail(syllabus))

get_media_details(response) ==
    IF response.status_code # HTTP_OK
    THEN [error |-> "Failed to get media details", details |-> <<>>]
    ELSE IF response.status # ECHO_OK_STATUS
    THEN [error |-> "Status not ok for media", details |-> <<>>]
    ELSE [error |-> "", details |-> <<Head(response.data)>>]

\* get_media: the typed Media built from the first element of each id list.
get_media(response, media_id) ==
    LET got == get_media_details(response) IN
    IF got.error # "" THEN [error |-> got.error, media |-> <<>>]
    ELSE LET d == got.details[1] IN
    IF "coursesById" \notin DOMAIN d THEN [error |-> "KeyError", media |-> <<>>]
    ELSE LET course_id == Head(d.media.publishedCourseIds)
             section_id == Head(d.media.publishedSectionIds)
             lesson_id == Head(d.media.publishedLessonIds)
         IN [error |-> "",
             media |-> <<[media_id |-> media_id,
                          course |-> [id |-> course_id,
                                      name |-> d.coursesById[course_id].name,
                                      code |-> d.coursesById[course_id].identifier],
                          lesson |-> [id |-> lesson_id,
                                      name |-> d.lessonsById[lesson_id].name],
                          files |-> [i \in DOMAIN d.details.files |->
                                       [name |-> d.details.files[i].name,
                                        size |-> d.details.files[i].fileSize,
                                        is_processed |-> d.details.files[i].isProcessedFile]],
                          organization_id |-> Head(d.details.publishedOrgsByCourseId[course_id].id),
                          department_id |-> Head(d.details.publishedDeptsByCourseId[course_id].id),
                          section_id |-> section_id]>>]

\* Variant: open(save_path, "ab"), what the file held stays.
open_ab(file) == [exists |-> TRUE, data |-> file.data]

\* open(save_path, "wb"): the file exists and is empty.
open_wb(file) == [exists |-> TRUE, data |-> <<>>]

\* file.write(chunk)
file_write(file, chunk) == [file EXCEPT !.data = Append(@, chunk)]

\* ------------------------------------------------------------------------
\* cli.py
\* ------------------------------------------------------------------------

\* save_directory / file.name
save_path(m, file_name) == <<m.course.id, m.lesson.id, file_name>>

\* Variant: only the records made by this process are asked.
save_decision_this_run(rows, m, file) ==
    IF ~file.is_processed THEN "unprocessed"
    ELSE IF has_media(rows \ index0.media, m.media_id, file.name) THEN "indexed"
    ELSE "download"

\* Variant: the index is not asked.
save_decision_unindexed(rows, m, file) ==
    IF ~file.is_processed THEN "unprocessed" ELSE "download"

\* Variant: a file found at the destination counts as downloaded.
save_decision_on_disk(rows, m, file) ==
    IF ~file.is_processed THEN "unprocessed"
    ELSE IF has_media(rows, m.media_id, file.name)
            \/ disk[save_path(m, file.name)].exists THEN "indexed"
    ELSE "download"

\* Variant: the processed flag is not looked at.
save_decision_any_file(rows, m, file) ==
    IF has_media(rows, m.media_id, file.name) THEN "indexed" ELSE "download"

\* The two early returns of _save_media_file.
save_decision(rows, m, file) ==
    IF ~file.is_processed THEN "unprocessed"
    ELSE IF has_media(rows, m.media_id, file.name) THEN "indexed"
    ELSE "download"


\* ------------------------------------------------------------------------
\* Initial state: nothing on disk, no index file, no run yet
\* ------------------------------------------------------------------------
InitRun ==
    /\ tables = {}
    /\ course = {}
    /\ lesson = {}
    /\ media = {}
    /\ disk = [p \in Paths |-> NoFile]
    /\ remote \in RemoteStates
    /\ pc = "ended"
    /\ session = "none"
    /\ cookies = {}
    /\ login_response = <<>>
    /\ login_user = <<>>
    /\ user = <<>>
    /\ section_i = 0
    /\ media_ids = <<>>
    /\ media_i = 0
    /\ cur_media = <<>>
    /\ file_i = 0
    /\ chunk_i = 0
    /\ outcome = "none"
    /\ error = ""
    /\ loginLog = <<>>
    /\ authenticated = FALSE
    /\ requests = 0
    /\ downloads = <<>>
    /\ opened = {}
    /\ queried = {}
    /\ index0 = [course |-> {}, lesson |-> {}, media |-> {}]
    /\ changed = FALSE
    /\ prevOutcome = "none"
    /\ steady = FALSE
    /\ lastCall = NoCall
    /\ lastCourse = [c \in CourseIds |-> <<>>]
    /\ lastLesson = [l \in LessonIds |-> <<>>]
    /\ parsed = <<>>

\* Nothing on disk, no index file, no run yet, no URL on the side.
Init ==
    /\ InitRun
    /\ query = <<>>
    /\ runs = <<>>

\* The process is gone: nothing of its memory is left.
ProcessGone ==
    /\ pc' = "ended"
    /\ cookies' = {}
    /\ login_response' = <<>>
    /\ login_user' = <<>>
    /\ user' = <<>>
    /\ section_i' = 0
    /\ media_ids' = <<>>
    /\ media_i' = 0
    /\ cur_media' = <<>>
    /\ file_i' = 0
    /\ chunk_i' = 0

\* Variant: the failure is logged and the body of the with statement runs.
LoginFail_continue(message) ==
    /\ pc' = "section"
    /\ section_i' = 1
    /\ UNCHANGED <<session, auth, media_ids, media_i, cur_media, file_i, chunk_i,
                   outcome, error>>

\* An exception leaves EchoClient.__enter__: the with statement never calls
\* EchoClient.__exit__, so the session made by _make_session is not closed.
LoginFail(message) ==
    /\ ProcessGone
    /\ outcome' = "failed"
    /\ error' = message
    /\ UNCHANGED session

\* Variant: the exception is caught in the loop over the sections, logged,
\* and the next section is taken.
BodyFail_continue(message) ==
    /\ error' = message
    /\ section_i' = section_i + 1
    /\ pc' = "section"
    /\ UNCHANGED <<session, auth, media_ids, media_i, cur_media, file_i, chunk_i,
                   outcome>>

\* An exception leaves the body of the with statement: both __exit__ run.
BodyFail(message) ==
    /\ ProcessGone
    /\ outcome' = "failed"
    /\ error' = message
    /\ session' = "closed"

\* ------------------------------------------------------------------------
\* cli(): entering the with statement
\* ------------------------------------------------------------------------

\* cli() starts: configuration and credentials are read, Index and
\* EchoClient are constructed.
StartRun ==
    /\ pc = "ended"
    /\ pc' = "index_enter"
    /\ session' = "none"
    /\ outcome' = "running"
    /\ error' = ""
    /\ loginLog' = <<>>
    /\ authenticated' = FALSE
    /\ requests' = 0
    /\ downloads' = <<>>
    /\ opened' = {}
    /\ queried' = {}
    /\ index0' = [course |-> course, lesson |-> lesson, media |-> media]
    /\ prevOutcome' = outcome
    /\ steady' = ~changed
    /\ changed' = FALSE
    /\ UNCHANGED <<durable, remote, aside, calls, auth, loops>>

\* Between two runs the service may change what it publishes.
RemoteChange ==
    /\ pc = "ended"
    /\ \E r \in RemoteStates \ {remote} : remote' = r
    /\ changed' = TRUE
    /\ UNCHANGED <<durable, aside, process, calls, outcome, error, loginLog, authenticated,
                   worklog, index0, prevOutcome, steady>>

\* Index.__enter__
IndexEnter ==
    /\ pc = "index_enter"
    /\ tables' = initialize_index(tables)
    /\ course' = create_table_if_not_exists(tables, "course", course)
    /\ lesson' = create_table_if_not_exists(tables, "lesson", lesson)
    /\ media' = create_table_if_not_exists(tables, "media", media)
    /\ pc' = "client_enter"
    /\ UNCHANGED <<disk, remote, aside, observed, calls, session,
                   auth, loops>>

\* EchoClient.__enter__, first statement: _make_session
MakeSession ==
    /\ pc = "client_enter"
    /\ session' = "open"
    /\ pc' = "login_institutions"
    /\ UNCHANGED <<durable, remote, aside, observed, calls, auth, loops>>

\* login(), step 1
BeginInstitutionAuthentication ==
    /\ pc = "login_institutions"
    /\ loginLog' = Append(loginLog, "institutions")
    /\ \E status_code \in {HTTP_OK, 500}, login_url \in LoginUrls :
         LET got == begin_institution_authentication(status_code, login_url) IN
         IF got.error # ""
         THEN LoginFail(got.error)
         ELSE /\ login_user' = got.user
              /\ pc' = "login_credentials"
              /\ UNCHANGED <<session, cookies, login_response, user, loops,
                             outcome, error>>
    /\ UNCHANGED <<durable, remote, aside, calls, authenticated, worklog, runstart>>

\* login(), step 2
ApplyInstitutionCredentials ==
    /\ pc = "login_credentials"
    /\ loginLog' = Append(loginLog, "credentials")
    /\ \E status_code \in {HTTP_OK, 401}, doc \in HtmlDocs :
         LET message == apply_institution_credentials(status_code, doc) IN
         IF message # ""
         THEN LoginFail(message)
         ELSE /\ pc' = "login_complete"
              /\ UNCHANGED <<session, auth, loops, outcome, error>>
    /\ UNCHANGED <<durable, remote, aside, calls, authenticated, worklog, runstart>>

\* Cookies the service may set during the login.
AllCookies == {"ECHO_JWT", "PLAY_SESSION", "CloudFront-Key-Pair-Id", "CloudFront-Policy",
               "CloudFront-Signature", "CloudFront-Tracking2"}

\* login(), step 3: the POST of the nonce returns; the responses seen so far
\* have left some cookies in the jar of the session.
CompleteLoginRequest ==
    /\ pc = "login_complete"
    /\ loginLog' = Append(loginLog, "completion")
    /\ \E status_code \in {HTTP_OK, 403}, jar \in SUBSET AllCookies :
         /\ login_response' = <<status_code>>
         /\ cookies' = cookies \cup jar
    /\ pc' = "login_check"
    /\ UNCHANGED <<durable, remote, aside, calls, session, login_user, user, loops,
                   outcome, error, authenticated, worklog, runstart>>

\* login(), step 3: the checks on the response; then login returns the user,
\* __enter__ stores it and the body of the with statement starts.
CompleteLoginCheck ==
    /\ pc = "login_check"
    /\ LET message == complete_institution_login(login_response[1], cookies) IN
       IF message # ""
       THEN LoginFail(message) /\ UNCHANGED authenticated
       ELSE /\ user' = login_user
            /\ authenticated' = TRUE
            /\ section_i' = 1
            /\ pc' = "section"
            /\ UNCHANGED <<session, cookies, login_response, login_user, media_ids,
                           media_i, cur_media, file_i, chunk_i, outcome, error>>
    /\ UNCHANGED <<durable, remote, aside, calls, loginLog, worklog, runstart>>

\* ------------------------------------------------------------------------
\* cli(): the body of the with statement
\* ------------------------------------------------------------------------

\* for section in config.sections: get_syllabus and the flattening
FetchSyllabus ==
    /\ pc = "section"
    /\ section_i <= Len(config_sections)
    /\ requests' = requests + 1
    /\ \E response \in SyllabusResponses(remote, config_sections[section_i]) :
         LET got == get_syllabus(response) IN
         IF got.error # ""
         THEN BodyFail(got.error)
         ELSE /\ media_ids' = FlattenMediaIds(got.data)
              /\ media_i' = 1
              /\ pc' = "media"
              /\ UNCHANGED <<session, auth, section_i, cur_media, file_i, chunk_i,
                             outcome, error>>
    /\ UNCHANGED <<durable, remote, aside, calls, loginLog, authenticated, downloads,
                   opened, queried, runstart>>

\* The loop over the sections is exhausted: the with statement is left,
\* EchoClient.__exit__ closes the session, Index.__exit__ the connection.
ExitScope ==
    /\ pc = "section"
    /\ section_i > Len(config_sections)
    /\ ProcessGone
    /\ session' = "closed"
    /\ outcome' = "done"
    /\ UNCHANGED <<durable, remote, aside, calls, error, loginLog, authenticated, worklog,
                   runstart>>

\* _download_media_if_not_exists: get_media
GetMedia ==
    /\ pc = "media"
    /\ media_i <= Len(media_ids)
    /\ requests' = requests + 1
    /\ \E response \in MediaResponses(remote, media_ids[media_i]) :
         LET got == get_media(response, media_ids[media_i]) IN
         IF got.error # ""
         THEN BodyFail(got.error)
         ELSE /\ cur_media' = got.media
              /\ pc' = "upsert_course"
              /\ UNCHANGED <<session, auth, section_i, media_ids, media_i, file_i,
                             chunk_i, outcome, error>>
    /\ UNCHANGED <<durable, remote, aside, calls, loginLog, authenticated, downloads,
                   opened, queried, runstart>>

\* The media of the section are exhausted: next section.
NextSection ==
    /\ pc = "media"
    /\ media_i > Len(media_ids)
    /\ section_i' = section_i + 1
    /\ pc' = "section"
    /\ UNCHANGED <<durable, remote, aside, calls, observed, session, auth, media_ids,
                   media_i, cur_media, file_i, chunk_i>>

\* Variant: the course is upserted only when a file of the media is to be
\* downloaded.
UpsertCourse_when_downloading ==
    /\ pc = "upsert_course"
    /\ LET m == cur_media[1]
           busy == \E i \in DOMAIN m.files :
                      m.files[i].is_processed
                      /\ ~has_media(media, m.media_id, m.files[i].name)
       IN /\ course' = IF busy
                       THEN create_course_or_update(course, m.course.id, m.course.name,
                                                    m.course.code)
                       ELSE course
          /\ lastCourse' = IF busy
                           THEN NoteCourse(lastCourse, m.course.id, m.course.name,
                                           m.course.code)
                           ELSE lastCourse
    /\ pc' = "upsert_lesson"
    /\ UNCHANGED <<tables, lesson, media, disk, remote, aside, observed, lastCall,
                   lastLesson, session, auth, loops>>

\* _download_media_if_not_exists: index.create_course_or_update
UpsertCourse ==
    /\ pc = "upsert_course"
    /\ LET m == cur_media[1] IN
       /\ course' = create_course_or_update(course, m.course.id, m.course.name,
                                            m.course.code)
       /\ lastCourse' = NoteCourse(lastCourse, m.course.id, m.course.name,
                                   m.course.code)
    /\ pc' = "upsert_lesson"
    /\ UNCHANGED <<tables, lesson, media, disk, remote, aside, observed, lastCall,
                   lastLesson, session, auth, loops>>

\* Variant: the lesson is not upserted.
UpsertLesson_skipped ==
    /\ pc = "upsert_lesson"
    /\ file_i' = 1
    /\ pc' = "file"
    /\ UNCHANGED <<durable, remote, aside, observed, calls, session, auth, section_i,
                   media_ids, media_i, cur_media, chunk_i>>

\* _download_media_if_not_exists: index.create_lesson_or_update
UpsertLesson ==
    /\ pc = "upsert_lesson"
    /\ LET m == cur_media[1] IN
       /\ lesson' = create_lesson_or_update(lesson, m.lesson.id, m.lesson.name,
                                            m.course.id)
       /\ lastLesson' = NoteLesson(lastLesson, m.lesson.id, m.lesson.name,
                                   m.course.id)
    /\ file_i' = 1
    /\ pc' = "file"
    /\ UNCHANGED <<tables, course, media, disk, remote, aside, observed, lastCall,
                   lastCourse, session, auth, section_i, media_ids, media_i,
                   cur_media, chunk_i>>

\* _save_media_file up to the download: the two early returns and the
\* creation of the directory.
CheckFile ==
    /\ pc = "file"
    /\ file_i <= Len(cur_media[1].files)
    /\ LET m == cur_media[1]
           file == m.files[file_i]
           decision == save_decision(media, m, file)
       IN /\ queried' = IF decision = "unprocessed" THEN queried
                        ELSE queried \cup {<<m.media_id, file.name>>}
          /\ IF decision = "download"
             THEN pc' = "save_request" /\ UNCHANGED file_i
             ELSE pc' = "file" /\ file_i' = file_i + 1
    /\ UNCHANGED <<durable, remote, aside, calls, outcome, error, loginLog, authenticated,
                   requests, downloads, opened, runstart, session, auth, section_i,
                   media_ids, media_i, cur_media, chunk_i>>

\* The files of the media are exhausted: next media.
NextMedia ==
    /\ pc = "file"
    /\ file_i > Len(cur_media[1].files)
    /\ media_i' = media_i + 1
    /\ pc' = "media"
    /\ UNCHANGED <<durable, remote, aside, calls, observed, session, auth, section_i,
                   media_ids, cur_media, file_i, chunk_i>>

\* save_media_file: the streaming GET and the status check.
SaveRequest ==
    /\ pc = "save_request"
    /\ requests' = requests + 1
    /\ \E status_code \in {HTTP_OK, 404} :
         IF status_code # HTTP_OK
         THEN BodyFail("Failed to download media")
         ELSE /\ pc' = "save_open"
              /\ UNCHANGED <<session, auth, loops, outcome, error>>
    /\ UNCHANGED <<durable, remote, aside, calls, loginLog, authenticated, downloads,
                   opened, queried, runstart>>

\* save_media_file: open(save_path, "wb")
SaveOpen ==
    /\ pc = "save_open"
    /\ LET m == cur_media[1]
           file == m.files[file_i]
           path == save_path(m, file.name)
       IN /\ disk' = [disk EXCEPT ![path] = open_wb(disk[path])]
          /\ opened' = opened \cup {<<m.media_id, file.name>>}
    /\ chunk_i' = 0
    /\ pc' = "save_chunk"
    /\ UNCHANGED <<tables, course, lesson, media, remote, aside, calls, outcome, error,
                   loginLog, authenticated, requests, downloads, queried, runstart,
                   session, auth, section_i, media_ids, media_i, cur_media, file_i>>

\* save_media_file: one turn of the loop over iter_content; after the last
\* chunk the file is closed and save_media_file returns.
SaveChunk ==
    /\ pc = "save_chunk"
    /\ chunk_i < NumChunks
    /\ LET m == cur_media[1]
           file == m.files[file_i]
           path == save_path(m, file.name)
       IN /\ disk' = [disk EXCEPT ![path] =
                        file_write(disk[path], Chunk(m.media_id, file.name, chunk_i + 1))]
          /\ IF chunk_i + 1 = NumChunks
             THEN /\ downloads' = Append(downloads, <<m.media_id, file.name>>)
                  /\ pc' = "create_media"
             ELSE /\ pc' = "save_chunk"
                  /\ UNCHANGED downloads
    /\ chunk_i' = chunk_i + 1
    /\ UNCHANGED <<tables, course, lesson, media, remote, aside, calls, outcome, error,
                   loginLog, authenticated, requests, opened, queried, runstart,
                   session, auth, section_i, media_ids, media_i, cur_media, file_i>>

\* Variant: the exception is swallowed and _save_media_file goes on.
SaveChunkFails_swallowed ==
    /\ pc = "save_chunk"
    /\ chunk_i < NumChunks
    /\ pc' = "create_media"
    /\ UNCHANGED <<durable, remote, aside, calls, observed, session, auth, loops>>

\* save_media_file: reading the stream or writing the file raises.
SaveChunkFails ==
    /\ pc = "save_chunk"
    /\ chunk_i < NumChunks
    /\ BodyFail("download interrupted")
    /\ UNCHANGED <<durable, remote, aside, calls, loginLog, authenticated, worklog, runstart>>

\* _save_media_file: index.create_media after save_media_file returned.
CreateMedia ==
    /\ pc = "create_media"
    /\ LET m == cur_media[1]
           file == m.files[file_i]
           res == create_media(media, m.media_id, file.name, m.lesson.id)
       IN IF res.error # ""
          THEN BodyFail(res.error) /\ UNCHANGED media
          ELSE /\ media' = res.rows
               /\ file_i' = file_i + 1
               /\ pc' = "file"
               /\ UNCHANGED <<session, auth, section_i, media_ids, media_i,
                              cur_media, chunk_i, outcome, error>>
    /\ UNCHANGED <<tables, course, lesson, disk, remote, aside, calls, loginLog,
                   authenticated, worklog, runstart>>

\* A statement on the index raises (the database is locked, the disk is
\* full): the transaction is rolled back and the exception leaves the body.
IndexFails ==
    /\ \/ pc \in {"upsert_course", "upsert_lesson", "create_media"}
       \/ /\ pc = "file"
          /\ file_i <= Len(cur_media[1].files)
          /\ cur_media[1].files[file_i].is_processed
    /\ BodyFail("OperationalError")
    /\ UNCHANGED <<durable, remote, aside, calls, loginLog, authenticated, worklog,
                   runstart>>

\* The process is terminated from outside, at any point.
Kill ==
    /\ pc # "ended"
    /\ ProcessGone
    /\ outcome' = "killed"
    /\ UNCHANGED <<durable, remote, aside, calls, session, error, loginLog, authenticated,
                   worklog, runstart>>

Next ==
    \/ StartRun
    \/ RemoteChange
    \/ IndexEnter
    \/ MakeSession
    \/ BeginInstitutionAuthentication
    \/ ApplyInstitutionCredentials
    \/ CompleteLoginRequest
    \/ CompleteLoginCheck
    \/ FetchSyllabus
    \/ ExitScope
    \/ GetMedia
    \/ NextSection
    \/ UpsertCourse
    \/ UpsertLesson
    \/ CheckFile
    \/ NextMedia
    \/ SaveRequest
    \/ SaveOpen
    \/ SaveChunk
    \/ SaveChunkFails
    \/ CreateMedia
    \/ IndexFails
    \/ Kill

Spec == Init /\ [][Next]_vars


\* ------------------------------------------------------------------------
\* The index on its own: any caller, any sequence of calls
\* ------------------------------------------------------------------------
\* The keys the callers use: the files the service publishes.
MediaKeys == {<<"M1", "a.mp4">>, <<"M1", "b.tmp">>, <<"M2", "a.mp4">>}

\* Index.__enter__ by any caller.
CallIndexEnter ==
    /\ tables' = initialize_index(tables)
    /\ course' = create_table_if_not_exists(tables, "course", course)
    /\ lesson' = create_table_if_not_exists(tables, "lesson", lesson)
    /\ media' = create_table_if_not_exists(tables, "media", media)
    /\ lastCall' = [op |-> "enter", key |-> <<>>, result |-> ""]
    /\ UNCHANGED <<disk, remote, aside, process, observed,
                   lastCourse, lastLesson>>

CallCreateCourseOrUpdate ==
    /\ tables = AllTables
    /\ \E course_id \in CourseIds, course_name \in CourseNames, course_code \in CourseCodes :
         /\ course' = create_course_or_update(course, course_id, course_name, course_code)
         /\ lastCourse' = NoteCourse(lastCourse, course_id, course_name, course_code)
         /\ lastCall' = [op |-> "create_course_or_update", key |-> <<course_id>>,
                         result |-> IF lastCourse[course_id] = <<>>
                                    THEN "first" ELSE "again"]
    /\ UNCHANGED <<tables, lesson, media, disk, remote, aside, process, observed, lastLesson>>

CallCreateLessonOrUpdate ==
    /\ tables = AllTables
    /\ \E lesson_id \in LessonIds, lesson_name \in LessonNames, for_course_id \in CourseIds :
         /\ lesson' = create_lesson_or_update(lesson, lesson_id, lesson_name, for_course_id)
         /\ lastLesson' = NoteLesson(lastLesson, lesson_id, lesson_name, for_course_id)
         /\ lastCall' = [op |-> "create_lesson_or_update", key |-> <<lesson_id>>,
                         result |-> IF lastLesson[lesson_id] = <<>>
                                    THEN "first" ELSE "again"]
    /\ UNCHANGED <<tables, course, media, disk, remote, aside, process, observed, lastCourse>>

CallHasMedia ==
    /\ tables = AllTables
    /\ \E key \in MediaKeys :
         lastCall' = [op |-> "has_media", key |-> key,
                      result |-> IF has_media(media, key[1], key[2])
                                 THEN "True" ELSE "False"]
    /\ UNCHANGED <<durable, remote, aside, process, observed, lastCourse, lastLesson>>

CallCreateMedia ==
    /\ tables = AllTables
    /\ \E key \in MediaKeys, for_lesson_id \in LessonIds :
         LET res == create_media(media, key[1], key[2], for_lesson_id) IN
         /\ media' = res.rows
         /\ lastCall' = [op |-> "create_media", key |-> key, result |-> res.error]
    /\ UNCHANGED <<tables, course, lesson, disk, remote, aside, process, observed,
                   lastCourse, lastLesson>>

IndexNext ==
    \/ CallIndexEnter
    \/ CallCreateCourseOrUpdate
    \/ CallCreateLessonOrUpdate
    \/ CallHasMedia
    \/ CallCreateMedia

\* The index is used without the service: its state does not matter.
InitIndex == Init /\ remote = [courseName |-> "Old", bProcessed |-> FALSE]

SpecIndex == InitIndex /\ [][IndexNext]_vars


\* ------------------------------------------------------------------------
\* _get_url_singular_query_params and _begin_institution_authentication on
\* the URLs of a bounded set of query strings
\* ------------------------------------------------------------------------
QueryFields == {<<"userId", "a">>, <<"userId", "b">>, <<"userId", "">>,
                <<"callbackUrl", "cb_one">>, <<"callbackUrl", "cb_two">>,
                <<"callbackUrl", "cb_other">>, <<"flag">>}

Queries == UNION {[1..n -> QueryFields] : n \in 0..MaxFields}

\* _get_url_singular_query_params(url): the dictionary, or the ValueError
\* of parse_qs.
CallGetUrlSingularQueryParams ==
    /\ parsed = <<>>
    /\ parsed' = <<[error |-> parse_qs(UrlQuery("u_input")).error,
                    params |-> get_url_singular_query_params("u_input")]>>
    /\ UNCHANGED <<durable, remote, process, observed, calls, query, runs>>

\* _begin_institution_authentication when the lookup was redirected to the
\* URL.
CallBeginInstitutionAuthentication ==
    /\ Len(parsed) = 1
    /\ parsed' = Append(parsed, begin_institution_authentication(HTTP_OK, "u_input"))
    /\ UNCHANGED <<durable, remote, process, observed, calls, query, runs>>

QueryNext ==
    \/ CallGetUrlSingularQueryParams
    \/ CallBeginInstitutionAuthentication

InitQuery ==
    /\ InitRun
    /\ remote = [courseName |-> "Old", bProcessed |-> FALSE]
    /\ query \in Queries
    /\ runs = <<>>

SpecQuery == InitQuery /\ [][QueryNext]_vars

\* ------------------------------------------------------------------------
\* Two runs of cli on the same index file and media root
\* ------------------------------------------------------------------------
Runs == {1, 2}

\* The section both runs are configured with: it lists M1.
conc_sections == <<"S2">>

\* The run w at its position, with its own connection and session; the
\* login, which touches neither the index nor the disk, is left out.
RunStart == [pc |-> "index_enter", media_ids |-> <<>>, media_i |-> 1,
             cur_media |-> <<>>, file_i |-> 1, chunk_i |-> 0, error |-> ""]

others == <<tables, remote, process, observed, calls, query, parsed>>

\* An exception leaves the with block of run w.
W_Fail(w, message) ==
    runs' = [runs EXCEPT ![w] = [@ EXCEPT !.pc = "failed", !.error = message]]

\* Index.__enter__ of run w
W_IndexEnter(w) ==
    /\ runs[w].pc = "index_enter"
    /\ tables' = initialize_index(tables)
    /\ course' = create_table_if_not_exists(tables, "course", course)
    /\ lesson' = create_table_if_not_exists(tables, "lesson", lesson)
    /\ media' = create_table_if_not_exists(tables, "media", media)
    /\ runs' = [runs EXCEPT ![w] = [@ EXCEPT !.pc = "section"]]
    /\ UNCHANGED <<disk, remote, process, observed, calls, query, parsed>>

\* cli: get_syllabus of the section and the flattening
W_FetchSyllabus(w) ==
    /\ runs[w].pc = "section"
    /\ runs' = [runs EXCEPT ![w] =
                  [@ EXCEPT !.media_ids =
                                FlattenMediaIds(SyllabusData(remote, conc_sections[1])),
                            !.media_i = 1,
                            !.pc = "media"]]
    /\ UNCHANGED <<durable, others>>

\* _download_media_if_not_exists: echo_client.get_media
W_GetMedia(w) ==
    /\ runs[w].pc = "media"
    /\ runs[w].media_i <= Len(runs[w].media_ids)
    /\ \E response \in MediaResponses(remote, runs[w].media_ids[runs[w].media_i]) :
         LET got == get_media(response, runs[w].media_ids[runs[w].media_i]) IN
         IF got.error # ""
         THEN W_Fail(w, got.error)
         ELSE runs' = [runs EXCEPT ![w] =
                         [@ EXCEPT !.cur_media = got.media, !.pc = "upsert_course"]]
    /\ UNCHANGED <<durable, others>>

\* The media of the section are exhausted: the with block is left.
W_Done(w) ==
    /\ runs[w].pc = "media"
    /\ runs[w].media_i > Len(runs[w].media_ids)
    /\ runs' = [runs EXCEPT ![w] = [@ EXCEPT !.pc = "done"]]
    /\ UNCHANGED <<durable, others>>

\* _download_media_if_not_exists: index.create_course_or_update
W_UpsertCourse(w) ==
    /\ runs[w].pc = "upsert_course"
    /\ LET m == runs[w].cur_media[1] IN
       course' = create_course_or_update(course, m.course.id, m.course.name,
                                         m.course.code)
    /\ runs' = [runs EXCEPT ![w] = [@ EXCEPT !.pc = "upsert_lesson"]]
    /\ UNCHANGED <<tables, lesson, media, disk, others>>

\* _download_media_if_not_exists: index.create_lesson_or_update
W_UpsertLesson(w) ==
    /\ runs[w].pc = "upsert_lesson"
    /\ LET m == runs[w].cur_media[1] IN
       lesson' = create_lesson_or_update(lesson, m.lesson.id, m.lesson.name,
                                         m.course.id)
    /\ runs' = [runs EXCEPT ![w] = [@ EXCEPT !.file_i = 1, !.pc = "file"]]
    /\ UNCHANGED <<tables, course, media, disk, others>>

\* _save_media_file up to the download
W_CheckFile(w) ==
    /\ runs[w].pc = "file"
    /\ runs[w].file_i <= Len(runs[w].cur_media[1].files)
    /\ LET m == runs[w].cur_media[1]
           file == m.files[runs[w].file_i]
       IN runs' = [runs EXCEPT ![w] =
                     IF save_decision(media, m, file) = "download"
                     THEN [@ EXCEPT !.pc = "save_request"]
                     ELSE [@ EXCEPT !.file_i = @ + 1]]
    /\ UNCHANGED <<durable, others>>

\* The files of the media are exhausted: next media.
W_NextMedia(w) ==
    /\ runs[w].pc = "file"
    /\ runs[w].file_i > Len(runs[w].cur_media[1].files)
    /\ runs' = [runs EXCEPT ![w] = [@ EXCEPT !.media_i = @ + 1, !.pc = "media"]]
    /\ UNCHANGED <<durable, others>>

\* save_media_file: the streaming GET and the status check
W_SaveRequest(w) ==
    /\ runs[w].pc = "save_request"
    /\ \E status_code \in {HTTP_OK, 404} :
         IF status_code # HTTP_OK
         THEN W_Fail(w, "Failed to download media")
         ELSE runs' = [runs EXCEPT ![w] = [@ EXCEPT !.pc = "save_open"]]
    /\ UNCHANGED <<durable, others>>

\* save_media_file: open(save_path, "wb")
W_SaveOpen(w) ==
    /\ runs[w].pc = "save_open"
    /\ LET m == runs[w].cur_media[1]
           path == save_path(m, m.files[runs[w].file_i].name)
       IN disk' = [disk EXCEPT ![path] = open_wb(disk[path])]
    /\ runs' = [runs EXCEPT ![w] = [@ EXCEPT !.chunk_i = 0, !.pc = "save_chunk"]]
    /\ UNCHANGED <<tables, course, lesson, media, others>>

\* A write of one chunk at the offset of k - 1 chunks: what lies beyond the
\* end of the file up to the offset reads as zeros.
file_write_at(file, k, chunk) ==
    [exists |-> TRUE,
     data |-> [i \in 1..(IF Len(file.data) > k THEN Len(file.data) ELSE k) |->
                 IF i = k THEN chunk
                 ELSE IF i <= Len(file.data) THEN file.data[i] ELSE "zeros"]]

\* save_media_file: one turn of the loop over iter_content. Each run writes
\* through its own file object, at its own offset.
W_SaveChunk(w) ==
    /\ runs[w].pc = "save_chunk"
    /\ runs[w].chunk_i < NumChunks
    /\ LET m == runs[w].cur_media[1]
           file == m.files[runs[w].file_i]
           path == save_path(m, file.name)
       IN disk' = [disk EXCEPT ![path] =
                     file_write_at(disk[path], runs[w].chunk_i + 1,
                                   Chunk(m.media_id, file.name, runs[w].chunk_i + 1))]
    /\ runs' = [runs EXCEPT ![w] =
                  [@ EXCEPT !.chunk_i = @ + 1,
                            !.pc = IF runs[w].chunk_i + 1 = NumChunks
                                   THEN "create_media" ELSE "save_chunk"]]
    /\ UNCHANGED <<tables, course, lesson, media, others>>

\* save_media_file: reading the stream or writing the file raises.
W_SaveChunkFails(w) ==
    /\ runs[w].pc = "save_chunk"
    /\ runs[w].chunk_i < NumChunks
    /\ W_Fail(w, "download interrupted")
    /\ UNCHANGED <<durable, others>>

\* _save_media_file: index.create_media after save_media_file returned
W_CreateMedia(w) ==
    /\ runs[w].pc = "create_media"
    /\ LET m == runs[w].cur_media[1]
           file == m.files[runs[w].file_i]
           res == create_media(media, m.media_id, file.name, m.lesson.id)
       IN IF res.error # ""
          THEN W_Fail(w, res.error) /\ UNCHANGED media
          ELSE /\ media' = res.rows
               /\ runs' = [runs EXCEPT ![w] = [@ EXCEPT !.file_i = @ + 1, !.pc = "file"]]
    /\ UNCHANGED <<tables, course, lesson, disk, others>>

\* The process of run w is terminated from outside.
W_Kill(w) ==
    /\ runs[w].pc \notin {"done", "failed", "killed"}
    /\ runs' = [runs EXCEPT ![w] = [@ EXCEPT !.pc = "killed"]]
    /\ UNCHANGED <<durable, others>>

ConcNext ==
    \/ \E w \in Runs : W_IndexEnter(w)
    \/ \E w \in Runs : W_FetchSyllabus(w)
    \/ \E w \in Runs : W_GetMedia(w)
    \/ \E w \in Runs : W_Done(w)
    \/ \E w \in Runs : W_UpsertCourse(w)
    \/ \E w \in Runs : W_UpsertLesson(w)
    \/ \E w \in Runs : W_CheckFile(w)
    \/ \E w \in Runs : W_NextMedia(w)
    \/ \E w \in Runs : W_SaveRequest(w)
    \/ \E w \in Runs : W_SaveOpen(w)
    \/ \E w \in Runs : W_SaveChunk(w)
    \/ \E w \in Runs : W_SaveChunkFails(w)
    \/ \E w \in Runs : W_CreateMedia(w)
    \/ \E w \in Runs : W_Kill(w)

InitConc ==
    /\ InitRun
    /\ remote = [courseName |-> "Old", bProcessed |-> TRUE]
    /\ query = <<>>
    /\ runs = [w \in Runs |-> RunStart]

SpecConc == InitConc /\ [][ConcNext]_vars


\* ------------------------------------------------------------------------
\* Properties
\* ------------------------------------------------------------------------
Range(seq) == {seq[i] : i \in DOMAIN seq}
KeyOf(row) == <<row.id, row.file_name>>
NewRecords == media \ index0.media

\* The keys (media_id, file_name) of the processed files the service lists for
\* the configured sections.
ListedProcessed(r) ==
    UNION {
      UNION {
        LET m == get_media([status_code |-> HTTP_OK, status |-> "ok",
                            data |-> <<MediaDetailsData(r, media_id)>>], media_id).media[1]
        IN {<<media_id, m.files[i].name>> : i \in {j \in DOMAIN m.files : m.files[j].is_processed}}
        : media_id \in Range(FlattenMediaIds(SyllabusData(r, config_sections[s])))}
      : s \in DOMAIN config_sections}

\* The file the layout <media_root>/<course_id>/<lesson_id>/<file_name> names
\* for a record of the index.
RecordFile(row) ==
    {disk[<<l.for_course, l.id, row.file_name>>] : l \in {x \in lesson : x.id = row.for_lesson}}

\* C1: every DownloadRecord inserted in a run belongs to a file whose
\* save_media_file returned in that run before the insert; a run that is
\* terminated or fails on the way leaves no record for the file.
C1_RecordOnlyAfterSave ==
    \A row \in NewRecords : KeyOf(row) \in Range(downloads)

\* A record was inserted in this run, and another download of the run failed
\* half way without leaving a record.
C1_Witness ==
    /\ outcome = "failed"
    /\ error = "download interrupted"
    /\ NewRecords # {}
    /\ \E key \in opened : ~has_media(media, key[1], key[2])

\* C2: the file a DownloadRecord stands for holds the complete content of
\* that media's file.
C2_RecordImpliesFile ==
    \A row \in media :
        RecordFile(row) = {[exists |-> TRUE, data |-> Content(row.id, row.file_name)]}

\* C3: a run that follows a completed run, with the remote unchanged, opens
\* no file, downloads nothing and adds no row to any of the three relations.
C3_SecondRunIdle ==
    (prevOutcome = "done" /\ steady /\ ~changed) =>
        /\ opened = {}
        /\ downloads = <<>>
        /\ media = index0.media
        /\ {r.id : r \in course} = {r.id : r \in index0.course}
        /\ {r.id : r \in lesson} = {r.id : r \in index0.lesson}
        /\ Cardinality(course) = Cardinality(index0.course)
        /\ Cardinality(lesson) = Cardinality(index0.lesson)

\* The second run went through all its files and completed.
C3_Witness ==
    /\ prevOutcome = "done" /\ steady /\ ~changed
    /\ outcome = "done"
    /\ queried = ListedProcessed(remote)

\* C4: a run that completes downloads exactly the listed processed files that
\* had no DownloadRecord when it started, each once, and leaves a record for
\* every listed processed file, whatever earlier runs were terminated.
C4_ResumeExactly ==
    (outcome = "done" /\ ~changed) =>
        /\ Range(downloads) =
             {key \in ListedProcessed(remote) : ~has_media(index0.media, key[1], key[2])}
        /\ Len(downloads) = Cardinality(Range(downloads))
        /\ opened = Range(downloads)
        /\ \A key \in ListedProcessed(remote) : has_media(media, key[1], key[2])

\* A run completed after a terminated run that had recorded some files and
\* left others, and it downloaded what was left.
C4_Witness ==
    /\ outcome = "done" /\ ~changed
    /\ prevOutcome = "killed"
    /\ index0.media # {}
    /\ downloads # <<>>

\* C5: in a run, no file the service marks unprocessed is looked up in the
\* index, requested, written or recorded.
C5_UnprocessedSkipped ==
    ~changed =>
        \A key \in queried \cup opened \cup Range(downloads) \cup {KeyOf(row) : row \in NewRecords} :
            key \in ListedProcessed(remote)

\* A completed run passed over b.tmp, unprocessed now, although the index
\* holds a record of it from the time it was processed.
C5_Witness ==
    /\ outcome = "done" /\ ~changed
    /\ ~remote.bProcessed
    /\ has_media(media, "M1", "b.tmp")
    /\ <<"M1", "a.mp4">> \in queried

LoginSteps == <<"institutions", "credentials", "completion">>

IsPrefix(a, b) == Len(a) <= Len(b) /\ \A i \in DOMAIN a : a[i] = b[i]

\* The login step an error message belongs to.
LoginStepOf(message) ==
    IF message \in {"Failed to find institution while attempting to login.",
                    "ValueError",
                    "Failed to obtain the the user ID from authentication.",
                    "Failed to obtain the callback URL for authentication.",
                    "Failed to obtain the institution ID for authentication."}
    THEN 1
    ELSE IF message \in {"Failed to apply credentials.",
                         "Failed to find the login completion form.",
                         "Failed to find the login completion URL.",
                         "Failed to find the authentication nonce input.",
                         "Failed to find the authentication nonce."}
    THEN 2
    ELSE 3

\* C6: the login requests of a run are a prefix of lookup, submission,
\* completion; a failed step is the last request of the run; and a syllabus,
\* media or download request, or a change of the index, happens only in a run
\* whose three steps succeeded.
C6_LoginStateMachine ==
    /\ IsPrefix(loginLog, LoginSteps)
    /\ authenticated => loginLog = LoginSteps
    /\ (outcome = "failed" /\ ~authenticated) => Len(loginLog) = LoginStepOf(error)
    /\ ~authenticated =>
         /\ requests = 0
         /\ queried = {} /\ opened = {} /\ downloads = <<>>
         /\ course = index0.course /\ lesson = index0.lesson /\ media = index0.media

\* The credential submission failed: the completion was never requested.
C6_Witness ==
    /\ outcome = "failed"
    /\ error = "Failed to find the authentication nonce input."
    /\ loginLog = <<"institutions", "credentials">>
    /\ requests = 0

\* C7: the check of the completion response lets login return the user
\* exactly when the status is 200 and the six cookies are all in the jar;
\* otherwise the run ends with an authentication error and no user.
C7_CookieGate ==
    [][(pc = "login_check" /\ outcome' # "killed") =>
          IF login_response[1] = 200
             /\ {"ECHO_JWT", "PLAY_SESSION", "CloudFront-Key-Pair-Id", "CloudFront-Policy",
                 "CloudFront-Signature", "CloudFront-Tracking2"} \subseteq cookies
          THEN authenticated' /\ user' = login_user /\ user' # <<>> /\ outcome' = "running"
          ELSE /\ ~authenticated' /\ user' = <<>> /\ outcome' = "failed"
               /\ error' \in {"Failed to complete authentication: response not ok.",
                              "Failed to complete authentication: missing required cookies."}
               /\ (login_response[1] = 200 =>
                     error' = "Failed to complete authentication: missing required cookies.")
      ]_vars

\* A completion answered 200 without all the cookies ended the run.
C7_Witness ==
    /\ outcome = "failed"
    /\ error = "Failed to complete authentication: missing required cookies."
    /\ ~authenticated

\* C8: when a run has ended, normally or by an error, its session is closed.
C8_SessionReleased ==
    outcome \in {"done", "failed"} => session = "closed"

\* C9: an insert of a key that has a DownloadRecord raises the duplicate-key
\* error and changes nothing; the index holds at most one record per key.
C9_DuplicateKey ==
    /\ [](\A r1 \in media, r2 \in media : KeyOf(r1) = KeyOf(r2) => r1 = r2)
    /\ [][(lastCall'.op = "create_media"
            /\ has_media(media, lastCall'.key[1], lastCall'.key[2])) =>
              /\ lastCall'.result = "IntegrityError"
              /\ media' = media /\ course' = course /\ lesson' = lesson
         ]_vars
    /\ [][(lastCall'.op = "create_media"
            /\ ~has_media(media, lastCall'.key[1], lastCall'.key[2])) =>
              /\ lastCall'.result = ""
              /\ has_media(media', lastCall'.key[1], lastCall'.key[2])
         ]_vars

\* The second insert of a key was refused.
C9_Witness ==
    /\ lastCall.op = "create_media"
    /\ lastCall.result = "IntegrityError"
    /\ has_media(media, lastCall.key[1], lastCall.key[2])

\* C10: each relation holds one row per upserted id, with the values of the
\* last upsert of that id; upserting twice is upserting once, and upserts of
\* different ids commute.
C10_UpsertSemantics ==
    /\ course = {[id |-> c, name |-> lastCourse[c][1].name, code |-> lastCourse[c][1].code] :
                 c \in {x \in CourseIds : lastCourse[x] # <<>>}}
    /\ lesson = {[id |-> l, name |-> lastLesson[l][1].name,
                  for_course |-> lastLesson[l][1].for_course] :
                 l \in {x \in LessonIds : lastLesson[x] # <<>>}}
    /\ \A c1 \in CourseIds, c2 \in CourseIds, n1 \in CourseNames, n2 \in CourseNames :
         LET once == create_course_or_update(course, c1, n1, "COD") IN
         /\ create_course_or_update(once, c1, n1, "COD") = once
         /\ c1 # c2 =>
              create_course_or_update(once, c2, n2, "COD")
              = create_course_or_update(create_course_or_update(course, c2, n2, "COD"),
                                        c1, n1, "COD")
    /\ \A l1 \in LessonIds, l2 \in LessonIds, f1 \in CourseIds, f2 \in CourseIds :
         LET once == create_lesson_or_update(lesson, l1, "Lesson", f1) IN
         /\ create_lesson_or_update(once, l1, "Lesson", f1) = once
         /\ l1 # l2 =>
              create_lesson_or_update(once, l2, "Lesson", f2)
              = create_lesson_or_update(create_lesson_or_update(lesson, l2, "Lesson", f2),
                                        l1, "Lesson", f1)

\* C1 was upserted as Old and then as New, next to a row of C2.
C10_Witness ==
    /\ lastCall = [op |-> "create_course_or_update", key |-> <<"C1">>, result |-> "again"]
    /\ [id |-> "C1", name |-> "New", code |-> "COD"] \in course
    /\ Cardinality(course) = 2


\* The typed Media of every media identifier the configured sections list.
ListedMedia(r) ==
    UNION {
      {get_media([status_code |-> HTTP_OK, status |-> "ok",
                  data |-> <<MediaDetailsData(r, media_id)>>], media_id).media[1]
       : media_id \in Range(FlattenMediaIds(SyllabusData(r, config_sections[s])))}
      : s \in DOMAIN config_sections}

\* The number of media identifiers the sections from the i-th on list.
RECURSIVE ListedOccurrences(_, _)
ListedOccurrences(r, i) ==
    IF i > Len(config_sections) THEN 0
    ELSE Len(FlattenMediaIds(SyllabusData(r, config_sections[i])))
         + ListedOccurrences(r, i + 1)

\* The file of the run that is being looked at, requested or written.
CurKey == <<cur_media[1].media_id, cur_media[1].files[file_i].name>>
CurPath == save_path(cur_media[1], cur_media[1].files[file_i].name)

\* C11: no step removes a DownloadRecord or changes its lesson, and no insert
\* that could be made on the index, refused or not, would.
C11_AppendOnly ==
    /\ [][media \subseteq media']_vars
    /\ [](\A key \in MediaKeys, for_lesson_id \in LessonIds :
            media \subseteq create_media(media, key[1], key[2], for_lesson_id).rows)

\* A later run was aborted after login and the records of the earlier runs
\* are all there.
C11_Witness ==
    /\ outcome \in {"failed", "killed"}
    /\ authenticated
    /\ index0.media # {}
    /\ index0.media \subseteq media

\* C12: an error in the sync loop ends the run at once: the failing step
\* commits nothing, nothing is requested, written or recorded afterwards, and
\* what was committed before stays.
C12_FailFast ==
    /\ [](error # "" => (outcome = "failed" /\ pc = "ended"))
    /\ [][(outcome = "running" /\ outcome' = "failed") => durable' = durable]_vars
    /\ [][(outcome = "failed" /\ outcome' = "failed") =>
            (durable' = durable /\ worklog' = worklog)]_vars
    /\ [](outcome = "failed" =>
            (index0.media \subseteq media
             /\ \A key \in opened \ Range(downloads) : ~has_media(media, key[1], key[2])))

\* The details of the second media could not be read: the run ended with the
\* records of the first media and asked for nothing more.
C12_Witness ==
    /\ outcome = "failed"
    /\ error = "KeyError"
    /\ NewRecords # {}
    /\ requests = 4

\* C13: Index.__enter__ on storage that holds the relations creates nothing
\* and leaves every row as it was, so has_media answers as before.
C13_ReopenKeepsRows ==
    [][(pc = "index_enter" /\ pc' = "client_enter") =>
          /\ course' = course /\ lesson' = lesson /\ media' = media
          /\ tables' = AllTables
          /\ (tables = AllTables => tables' = tables)
          /\ \A key \in MediaKeys :
               has_media(media', key[1], key[2]) = has_media(media, key[1], key[2])
      ]_vars

\* A run opened an index that holds rows of earlier runs.
C13_Witness ==
    /\ pc = "client_enter"
    /\ media # {} /\ course # {} /\ lesson # {}
    /\ media = index0.media

\* C15: when the files of a media are looked at, its course and lesson are
\* in the index with the values just fetched; a completed run has fetched
\* every listed occurrence and leaves the names the service gave.
C15_UpsertBeforeFiles ==
    /\ pc \in {"file", "save_request", "save_open", "save_chunk", "create_media"} =>
         /\ cur_media[1].course \in course
         /\ [id |-> cur_media[1].lesson.id, name |-> cur_media[1].lesson.name,
             for_course |-> cur_media[1].course.id] \in lesson
    /\ (outcome = "done" /\ ~changed) =>
         /\ course = {m.course : m \in ListedMedia(remote)}
         /\ lesson = {[id |-> m.lesson.id, name |-> m.lesson.name,
                       for_course |-> m.course.id] : m \in ListedMedia(remote)}
         /\ requests = Len(config_sections) + ListedOccurrences(remote, 1)
                       + Len(downloads)

\* A completed run downloaded nothing and yet changed the name of the course.
C15_Witness ==
    /\ outcome = "done" /\ ~changed
    /\ downloads = <<>>
    /\ index0.media = media
    /\ course # index0.course

\* C16: while save_media_file writes, the destination holds the chunks
\* received so far and nothing else; when it has returned, the whole
\* content; and a refused download leaves the disk as it was.
C16_SaveOverwrites ==
    /\ [](pc = "save_chunk" =>
            disk[CurPath] = [exists |-> TRUE,
                             data |-> SubSeq(Content(CurKey[1], CurKey[2]), 1, chunk_i)])
    /\ [](pc = "create_media" =>
            disk[CurPath] = [exists |-> TRUE, data |-> Content(CurKey[1], CurKey[2])])
    /\ [][(pc = "save_request" /\ outcome' = "failed") => disk' = disk]_vars

\* The file of M2 was written over the complete file of M1.
C16_Witness ==
    /\ pc = "create_media"
    /\ CurKey = <<"M2", "a.mp4">>
    /\ has_media(media, "M1", "a.mp4")

\* C17: create_media is reached only for a key without a DownloadRecord, and
\* no run ends with the duplicate-key error.
C17_NoDuplicateInsert ==
    /\ pc = "create_media" => ~has_media(media, CurKey[1], CurKey[2])
    /\ error # "IntegrityError"

\* M1 was met again in the second section, and the second a.mp4 of M2 was
\* passed over, after their records were made in this run.
C17_Witness ==
    /\ section_i = 2
    /\ pc = "file"
    /\ file_i > 1
    /\ {<<"M1", "a.mp4">>, <<"M2", "a.mp4">>} \subseteq {KeyOf(row) : row \in NewRecords}
    /\ Len(downloads) = Cardinality(Range(downloads))

\* C18: every DownloadRecord names a lesson of the lesson relation and every
\* lesson a course of the course relation.
C18_ReferentialIntegrity ==
    /\ \A row \in media : \E l \in lesson : l.id = row.for_lesson
    /\ \A l \in lesson : \E c \in course : c.id = l.for_course

\* A run was aborted after it had recorded a file.
C18_Witness ==
    /\ outcome \in {"failed", "killed"}
    /\ NewRecords # {}
    /\ lesson # {}


\* The values the query string q carries for the name n, in order, the
\* blank ones too.
ValuesOf(q, n) ==
    LET fs == SelectSeq(q, LAMBDA f : Len(f) = 2 /\ f[1] = n)
    IN [i \in DOMAIN fs |-> fs[i][2]]

NonBlank(values) == SelectSeq(values, LAMBDA v : v # "")

QueryNames == {"userId", "callbackUrl", "flag"}

WellFormed(q) == \A i \in DOMAIN q : Len(q[i]) = 2

\* C14 as stated: whenever the extraction returns, every name the query
\* string carries a value that is not blank for is extracted with the first
\* of its values in the query string; a multi-valued name is no error of the
\* institution resolution and an absent userId or callbackUrl is.
C14_FirstValue ==
    /\ (Len(parsed) >= 1 /\ parsed[1].error = "") =>
         \A n \in QueryNames :
           NonBlank(ValuesOf(query, n)) # <<>> =>
             /\ n \in DOMAIN parsed[1].params
             /\ parsed[1].params[n] = Head(ValuesOf(query, n))
    /\ (Len(parsed) = 2 /\ WellFormed(query)) =>
         /\ (ValuesOf(query, "userId") = <<>> \/ ValuesOf(query, "callbackUrl") = <<>>)
              => parsed[2].error # ""
         /\ parsed[2].error = "" =>
              parsed[2].user[1].user_id = Head(ValuesOf(query, "userId"))

\* C14, amended: blank values are left out before the first value is taken,
\* a name with blank values only is absent, and a field without "=" makes
\* the extraction raise ValueError.
C14_FirstNonBlankValue ==
    /\ Len(parsed) >= 1 =>
         IF WellFormed(query)
         THEN /\ parsed[1].error = ""
              /\ DOMAIN parsed[1].params =
                   {n \in QueryNames : NonBlank(ValuesOf(query, n)) # <<>>}
              /\ \A n \in DOMAIN parsed[1].params :
                   parsed[1].params[n] = Head(NonBlank(ValuesOf(query, n)))
         ELSE parsed[1].error = "ValueError"
    /\ Len(parsed) = 2 =>
         LET users == NonBlank(ValuesOf(query, "userId"))
             callbacks == NonBlank(ValuesOf(query, "callbackUrl"))
         IN IF ~WellFormed(query) THEN parsed[2].error = "ValueError"
            ELSE IF users = <<>> \/ callbacks = <<>> THEN parsed[2].error # ""
            ELSE IF Head(callbacks) = "cb_other" THEN parsed[2].error # ""
            ELSE /\ parsed[2].error = ""
                 /\ parsed[2].user[1].user_id = Head(users)
                 /\ parsed[2].user[1].institution_id = "i1"

\* userId came twice, a then b, with a callback URL of two institutionId:
\* the user is a of the first institution.
C14_Witness ==
    /\ Len(parsed) = 2
    /\ ValuesOf(query, "userId") = <<"a", "b">>
    /\ ValuesOf(query, "callbackUrl") = <<"cb_two">>
    /\ parsed[2].error = ""
    /\ parsed[2].user[1].user_id = "a"

\* C19 as stated, for the file b.tmp of M1, whose path no other file has:
\* at most one record of it, and while the record is there the file holds
\* the complete content.
C19_RecordedFileStays ==
    /\ Cardinality({row \in media : row.id = "M1" /\ row.file_name = "b.tmp"}) <= 1
    /\ has_media(media, "M1", "b.tmp") =>
         disk[<<"C1", "L1", "b.tmp">>] = [exists |-> TRUE, data |-> Content("M1", "b.tmp")]

====
